---- MODULE Spec2Model ----
(***************************************************************************)
(* A model of the gobtree B-Tree: node (entries, children, get, insert,    *)
(* split) and BTree (New, Search, Insert, splitRoot, nodeFull).  Nodes     *)
(* live in a heap addressed by node ids, as the Go code addresses them by  *)
(* pointer; indices into entries and children are the 0-based indices of   *)
(* the Go code.                                                            *)
(***************************************************************************)
EXTENDS Integers, Sequences, FiniteSets, TLC

\* ------------------------------------------------------------------ bounds
\* Largest argument of New.
MaxDegreeArg == 3
\* Keys and number of Insert calls of Spec, whose entries all carry one value.
MaxKey == 8
MaxCalls == 10
\* Keys, values and number of Insert calls of SpecVal, whose entries carry
\* any of the values.
MaxValKey == 5
MaxVal == 2
MaxValCalls == 6
\* Keys of the nodes SpecSplit hands to split, and the number of ways their
\* children are numbered.
MaxSplitKey == 7
MaxSplitBase == 2
\* Keys and number of Insert calls of SpecStep, whose one thread runs Insert
\* step by step.
MaxStepKey == 8
MaxStepCalls == 10
\* Threads, keys, number of Insert calls and largest minimum degree of
\* SpecConc, whose threads run all operations step by step.
NumThreads == 2
MaxConcKey == 5
MaxConcCalls == 6
MaxConcDegree == 2
\* Keys and number of Insert calls of SpecFair.
MaxFairKey == 3
MaxFairCalls == 4

Keys == 1..MaxKey
ValKeys == 1..MaxValKey
Vals == 1..MaxVal
\* The arguments of New: rejected ones (negative, 0, 1) and accepted ones.
DegreeArgs == -1..MaxDegreeArg
StepKeys == 1..MaxStepKey
ConcKeys == 1..MaxConcKey
FairKeys == 1..MaxFairKey
Threads == 1..NumThreads
AllKeys == Keys \cup ValKeys \cup StepKeys \cup ConcKeys \cup FairKeys

\* ----------------------------------------------------------------- entries
\* The nil Entry and the nil *node.
NilEntry == [key |-> 0, value |-> 0]
NilNode == 0

\* testEntry{key, value}
testEntry(k, v) == [key |-> k, value |-> v]

\* testEntry.Compare
Compare(te, teOther) ==
  IF te.key < teOther.key THEN -1
  ELSE IF te.key > teOther.key THEN 1
  ELSE 0

\* The element of a set of one element: Only({F(x) : x \in {v}}) is F(v),
\* with v computed once.
Only(S) == CHOOSE r \in S : TRUE

\* ------------------------------------------------------------------- node
At(s, i) == s[i + 1]

InsertAt(s, i, x) == SubSeq(s, 1, i) \o <<x>> \o SubSeq(s, i + 1, Len(s))

newNode == [entries |-> <<>>, children |-> <<>>]

clear(n) == [n EXCEPT !.entries = <<>>, !.children = <<>>]

numEntries(n) == Len(n.entries)

numChildren(n) == Len(n.children)

leaf(n) == numChildren(n) = 0

\* sort.Search(n.numEntries(), func(i) { n.entries[i].Compare(e) >= 0 }):
\* the binary search on [i, j) as the Go library runs it.
RECURSIVE sortSearch(_, _, _, _)
sortSearch(entries, e, i, j) ==
  IF i < j
  THEN LET h == (i + j) \div 2
       IN IF ~(Compare(At(entries, h), e) >= 0)
          THEN sortSearch(entries, e, h + 1, j)
          ELSE sortSearch(entries, e, i, h)
  ELSE i

get(n, e) ==
  LET i == sortSearch(n.entries, e, 0, numEntries(n))
  IN IF i < numEntries(n) /\ Compare(At(n.entries, i), e) = 0
     THEN [found |-> At(n.entries, i), i |-> i]
     ELSE [found |-> NilEntry, i |-> i]

\* Lines 69-77 of node.insert, r being what n.get(e) returned.
put(n, e, r) ==
  IF r.found # NilEntry /\ r.i >= 0
  THEN [n EXCEPT !.entries[r.i + 1] = e]
  ELSE [n EXCEPT !.entries = InsertAt(n.entries, r.i, e)]

insert(n, e) == Only({put(n, e, r) : r \in {get(n, e)}})

replaceChildAt(n, i, child) == [n EXCEPT !.children[i + 1] = child]

insertChildAt(n, i, child) ==
  [n EXCEPT !.children = InsertAt(n.children, i, child)]

\* split with the mid index one too low: the halves are unequal.
splitOffCentre(n) ==
  LET midEntryIdx == (numEntries(n) \div 2) - 1
      leftEntries == SubSeq(n.entries, 1, midEntryIdx)
      rightEntries == SubSeq(n.entries, midEntryIdx + 2, numEntries(n))
      hasChildren == numChildren(n) > 0
      leftChildren == SubSeq(n.children, 1, midEntryIdx + 1)
      rightChildren == SubSeq(n.children, midEntryIdx + 2, numChildren(n))
  IN [left  |-> [entries |-> leftEntries,
                 children |-> IF hasChildren THEN leftChildren ELSE <<>>],
      right |-> [entries |-> rightEntries,
                 children |-> IF hasChildren THEN rightChildren ELSE <<>>],
      mid   |-> At(n.entries, midEntryIdx)]

\* split whose right half starts at the mid entry.
splitRightKeepsMid(n) ==
  LET midEntryIdx == numEntries(n) \div 2
      leftEntries == SubSeq(n.entries, 1, midEntryIdx)
      rightEntries == SubSeq(n.entries, midEntryIdx + 1, numEntries(n))
      hasChildren == numChildren(n) > 0
      leftChildren == SubSeq(n.children, 1, midEntryIdx + 1)
      rightChildren == SubSeq(n.children, midEntryIdx + 2, numChildren(n))
  IN [left  |-> [entries |-> leftEntries,
                 children |-> IF hasChildren THEN leftChildren ELSE <<>>],
      right |-> [entries |-> rightEntries,
                 children |-> IF hasChildren THEN rightChildren ELSE <<>>],
      mid   |-> At(n.entries, midEntryIdx)]

\* The two halves and the mid entry; the halves are fresh nodes.
split(n) ==
  LET midEntryIdx == numEntries(n) \div 2
      leftEntries == SubSeq(n.entries, 1, midEntryIdx)
      rightEntries == SubSeq(n.entries, midEntryIdx + 2, numEntries(n))
      hasChildren == numChildren(n) > 0
      leftChildren == SubSeq(n.children, 1, midEntryIdx + 1)
      rightChildren == SubSeq(n.children, midEntryIdx + 2, numChildren(n))
  IN [left  |-> [entries |-> leftEntries,
                 children |-> IF hasChildren THEN leftChildren ELSE <<>>],
      right |-> [entries |-> rightEntries,
                 children |-> IF hasChildren THEN rightChildren ELSE <<>>],
      mid   |-> At(n.entries, midEntryIdx)]

\* ------------------------------------------------------------------ BTree
VARIABLES
  heap,        \* the nodes allocated so far, by node id (1..Len(heap))
  root,        \* bt.root (NilNode when New failed)
  minDegree,   \* bt.minDegree
  size,        \* bt.size
  depth,       \* bt.depth
  err,         \* New returned an error and no tree
  degreeArg,   \* the argument New was called with
  latest,      \* history: the value most recently inserted per key, 0 if none
  calls,       \* history: number of Insert calls with a non-nil entry
  repeated,    \* history: some Insert call carried a key inserted before
  rootSplits,  \* history: number of splitRoot calls
  childSplits, \* history: number of child splits in Insert
  retired,     \* history: the ids of the nodes that clear() was called on
  splitArg,    \* SpecSplit: the node split() is called on
  splitRes,    \* SpecSplit: what split() returned, NoSplit before the call
  pc,          \* per thread: where it is in its operation
  op,          \* per thread: the operation it called last, and its argument
  cur,         \* per thread: curr of Search or Insert
  ret,         \* per thread: what its last operation returned
  mu,          \* bt.mu: the writer, the writer waiting for the readers to
               \* leave, and the readers
  expect,      \* history, per thread: what its read operation returns on the
               \* tree as it was when the thread got the lock
  iters,       \* history, per thread: loop iterations done in its operation
  seqTree      \* history: the tree that the Inserts done so far give when run
               \* one after the other, in the order in which they got the lock

vars == <<heap, root, minDegree, size, depth, err, degreeArg,
          latest, calls, repeated, rootSplits, childSplits, retired,
          splitArg, splitRes, pc, op, cur, ret, mu, expect, iters, seqTree>>

treeVars == <<heap, root, size, depth, rootSplits, childSplits, retired>>
histVars == <<latest, calls, repeated>>
fixedVars == <<minDegree, err, degreeArg, splitArg, splitRes>>
threadVars == <<pc, op, cur, ret, mu, expect, iters, seqTree>>

\* The BTree fields (and the split counters) as one record, for the
\* operators that run inside one Insert.
bt == [heap |-> heap, root |-> root, minDegree |-> minDegree, size |-> size,
       depth |-> depth, rootSplits |-> rootSplits,
       childSplits |-> childSplits, retired |-> retired]

nodeFull(t, n) == (2 * t.minDegree) - 1 = numEntries(n)

\* New that rejects only t < 1.
NewAcceptsOne(t) ==
  IF t < 1
  THEN [err |-> TRUE, heap |-> <<>>, root |-> NilNode, minDegree |-> 0,
        size |-> 0, depth |-> 0]
  ELSE [err |-> FALSE, heap |-> <<newNode>>, root |-> 1, minDegree |-> t,
        size |-> 0, depth |-> 1]

\* New(t): the tree, or an error and no tree.
New(t) ==
  IF t < 2
  THEN [err |-> TRUE, heap |-> <<>>, root |-> NilNode, minDegree |-> 0,
        size |-> 0, depth |-> 0]
  ELSE [err |-> FALSE, heap |-> <<newNode>>, root |-> 1, minDegree |-> t,
        size |-> 0, depth |-> 1]

\* What a Search that indexes past the end of a slice ends in: the Go
\* runtime panics, and no Entry is returned.
PanicEntry == [key |-> -1, value |-> -1]

\* searchAt without the leaf test of lines 67-69.
searchAtNoLeafTest(h, curr, e, r) ==
  IF r.found # NilEntry /\ r.i >= 0
  THEN [done |-> TRUE, ret |-> r.found, curr |-> curr]
  ELSE IF r.i >= numChildren(h[curr])
       THEN [done |-> TRUE, ret |-> PanicEntry, curr |-> curr]
       ELSE [done |-> FALSE, ret |-> NilEntry,
             curr |-> At(h[curr].children, r.i)]

\* Lines 63-71 of Search, r being what curr.get(e) returned: the Entry
\* returned, or the node the loop continues in.
searchAt(h, curr, e, r) ==
  IF r.found # NilEntry /\ r.i >= 0
  THEN [done |-> TRUE, ret |-> r.found, curr |-> curr]
  ELSE IF numChildren(h[curr]) = 0
       THEN [done |-> TRUE, ret |-> NilEntry, curr |-> curr]
       ELSE IF r.i >= numChildren(h[curr])
            THEN [done |-> TRUE, ret |-> PanicEntry, curr |-> curr]
            ELSE [done |-> FALSE, ret |-> NilEntry,
                  curr |-> At(h[curr].children, r.i)]

\* One iteration of the loop `for curr != nil` of Search.
searchStep(h, curr, e) ==
  Only({searchAt(h, curr, e, r) : r \in {get(h[curr], e)}})

\* The loop of Search from curr on.
RECURSIVE searchFrom(_, _, _)
RECURSIVE searchOn(_, _, _)
searchOn(h, st, e) ==
  IF st.done THEN st.ret ELSE searchFrom(h, st.curr, e)

searchFrom(h, curr, e) ==
  IF curr = NilNode
  THEN NilEntry
  ELSE Only({searchOn(h, st, e) : st \in {searchStep(h, curr, e)}})

Search(e) == searchFrom(heap, root, e)

\* Lines 151-161 of splitRoot, s being what bt.root.split() returned: the
\* tree afterwards, with the ids of the two halves and the mid entry.
rootSplit(t, s) ==
  LET left == Len(t.heap) + 1
      right == Len(t.heap) + 2
      newRootId == Len(t.heap) + 3
      newRoot == insertChildAt(
                   insertChildAt(insert(newNode, s.mid), 0, left), 1, right)
      h == t.heap \o <<s.left, s.right, newRoot>>
  IN [t |-> [t EXCEPT !.heap = [h EXCEPT ![t.root] = clear(@)],
                      !.root = newRootId,
                      !.depth = @ + 1,
                      !.rootSplits = @ + 1,
                      !.retired = @ \cup {t.root}],
      left |-> left, right |-> right, mid |-> s.mid]

\* splitRoot that leaves bt.depth alone.
splitRootKeepsDepth(t) ==
  [rootSplit(t, split(t.heap[t.root])) EXCEPT !.t.depth = t.depth]

splitRoot(t) == Only({rootSplit(t, s) : s \in {split(t.heap[t.root])}})

\* The child split that does not link the right half into the parent.
childSplitDropsRight(t, curr, i, next, s) ==
  LET left == Len(t.heap) + 1
      right == Len(t.heap) + 2
      parent == replaceChildAt(insert(t.heap[curr], s.mid), i, left)
      h == t.heap \o <<s.left, s.right>>
  IN [t |-> [t EXCEPT !.heap = [h EXCEPT ![curr] = parent,
                                         ![next] = clear(@)],
                      !.childSplits = @ + 1],
      left |-> left, right |-> right, mid |-> s.mid]

\* The child split that counts itself as a new level.
childSplitGrowsDepth(t, curr, i, next, s) ==
  LET left == Len(t.heap) + 1
      right == Len(t.heap) + 2
      parent == insertChildAt(
                  replaceChildAt(insert(t.heap[curr], s.mid), i, left),
                  i + 1, right)
      h == t.heap \o <<s.left, s.right>>
  IN [t |-> [t EXCEPT !.heap = [h EXCEPT ![curr] = parent,
                                         ![next] = clear(@)],
                      !.depth = @ + 1,
                      !.childSplits = @ + 1],
      left |-> left, right |-> right, mid |-> s.mid]

\* The child split that links the right half but leaves next in its slot.
childSplitKeepsNext(t, curr, i, next, s) ==
  LET left == Len(t.heap) + 1
      right == Len(t.heap) + 2
      parent == insertChildAt(insert(t.heap[curr], s.mid), i + 1, right)
      h == t.heap \o <<s.left, s.right>>
  IN [t |-> [t EXCEPT !.heap = [h EXCEPT ![curr] = parent,
                                         ![next] = clear(@)],
                      !.childSplits = @ + 1,
                      !.retired = @ \cup {next}],
      left |-> left, right |-> right, mid |-> s.mid]

\* The child split that links the halves the wrong way round.
childSplitSwapsHalves(t, curr, i, next, s) ==
  LET left == Len(t.heap) + 1
      right == Len(t.heap) + 2
      parent == insertChildAt(
                  replaceChildAt(insert(t.heap[curr], s.mid), i, right),
                  i + 1, left)
      h == t.heap \o <<s.left, s.right>>
  IN [t |-> [t EXCEPT !.heap = [h EXCEPT ![curr] = parent,
                                         ![next] = clear(@)],
                      !.childSplits = @ + 1,
                      !.retired = @ \cup {next}],
      left |-> left, right |-> right, mid |-> s.mid]

\* Lines 125-128 of Insert, s being what next.split() returned and next the
\* child at index i of curr: the tree afterwards, with the ids of the two
\* halves and the mid entry.
childSplit(t, curr, i, next, s) ==
  LET left == Len(t.heap) + 1
      right == Len(t.heap) + 2
      parent == insertChildAt(
                  replaceChildAt(insert(t.heap[curr], s.mid), i, left),
                  i + 1, right)
      h == t.heap \o <<s.left, s.right>>
  IN [t |-> [t EXCEPT !.heap = [h EXCEPT ![curr] = parent,
                                         ![next] = clear(@)],
                      !.childSplits = @ + 1,
                      !.retired = @ \cup {next}],
      left |-> left, right |-> right, mid |-> s.mid]

\* The half that is the other one.
chooseHalfSwapped(sp, e) ==
  [t |-> sp.t,
   curr |-> IF Compare(e, sp.mid) < 0 THEN sp.right ELSE sp.left,
   returned |-> FALSE]

\* Lines 130-134 of Insert (and, after a root split, lines 104-108): the
\* half of the split sp in which the walk for e continues.
chooseHalf(sp, e) ==
  [t |-> sp.t,
   curr |-> IF Compare(e, sp.mid) < 0 THEN sp.left ELSE sp.right,
   returned |-> FALSE]

\* descendInto that never splits the child.
descendIntoNoSplit(t, curr, i, next, e) ==
  [t |-> t, curr |-> next, returned |-> FALSE]

\* Lines 114-137 of Insert, next being the child at index i of curr.
descendInto(t, curr, i, next, e) ==
  IF nodeFull(t, t.heap[next])
  THEN Only({chooseHalf(sp, e) :
               sp \in {childSplit(t, curr, i, next, s) :
                          s \in {split(t.heap[next])}}})
  ELSE [t |-> t, curr |-> next, returned |-> FALSE]

\* Lines 112-137 of Insert: the child to continue in, split first when full.
descend(t, curr, i, e) ==
  descendInto(t, curr, i, At(t.heap[curr].children, i), e)

\* Lines 95-138 of Insert, r being what curr.get(e) returned.
loopBodyAt(t, curr, e, r) ==
  IF r.found # NilEntry /\ r.i >= 0
  THEN [t |-> [t EXCEPT !.heap[curr].entries[r.i + 1] = e],
        curr |-> curr, returned |-> TRUE]
  ELSE IF curr = t.root /\ nodeFull(t, t.heap[curr])
       THEN Only({chooseHalf(sp, e) : sp \in {splitRoot(t)}})
       ELSE descend(t, curr, r.i, e)

\* One iteration of the loop `for !curr.leaf()` of Insert.
loopBody(t, curr, e) ==
  Only({loopBodyAt(t, curr, e, r) : r \in {get(t.heap[curr], e)}})

\* The loop of Insert from curr on: the tree and the leaf reached, or the
\* tree after the overwrite on which Insert returned.
RECURSIVE walk(_, _, _)
RECURSIVE walkOn(_, _)
walkOn(b, e) == IF b.returned THEN b ELSE walk(b.t, b.curr, e)

walk(t, curr, e) ==
  IF leaf(t.heap[curr])
  THEN [t |-> t, curr |-> curr, returned |-> FALSE]
  ELSE Only({walkOn(b, e) : b \in {loopBody(t, curr, e)}})

\* Insert without its lines 144-146.
splitFullRootNever(a, curr) == a

\* Lines 144-146 of Insert.
splitFullRoot(a, curr) ==
  IF curr = a.root /\ nodeFull(a, a.heap[curr])
  THEN splitRoot(a).t
  ELSE a

\* leafInsert without bt.size++.
leafInsertNoCount(t, curr, e) ==
  splitFullRoot([t EXCEPT !.heap[curr] = insert(@, e)], curr)

\* Lines 141-146 of Insert: the leaf insertion and the root split after it.
leafInsert(t, curr, e) ==
  Only({splitFullRoot(a, curr) :
          a \in {[t EXCEPT !.heap[curr] = insert(@, e), !.size = @ + 1]}})

\* Lines 141-146 of Insert, unless the loop returned.
afterWalk(w, e) == IF w.returned THEN w.t ELSE leafInsert(w.t, w.curr, e)

\* BTree.Insert for a non-nil entry: the tree afterwards.
insertEntry(t, e) == Only({afterWalk(w, e) : w \in {walk(t, t.root, e)}})

\* No result of split() yet.
NoSplit == [left |-> newNode, right |-> newNode, mid |-> NilEntry]

\* No operation called yet, nothing returned, nobody at the lock.
NoOp == [kind |-> "none", arg |-> NilEntry]
NoRet == [entry |-> NilEntry, n |-> 0]
FreeMu == [writer |-> 0, pending |-> 0, readers |-> {}]

InitThreads ==
  /\ pc = [th \in Threads |-> "idle"]
  /\ op = [th \in Threads |-> NoOp]
  /\ cur = [th \in Threads |-> NilNode]
  /\ ret = [th \in Threads |-> NoRet]
  /\ expect = [th \in Threads |-> NoRet]
  /\ iters = [th \in Threads |-> 0]
  /\ mu = FreeMu
  /\ seqTree = bt

\* The state after New(t), for t in D.
InitWith(D) ==
  \E t \in D :
    \E n \in {New(t)} :
       /\ degreeArg = t
       /\ err = n.err
       /\ heap = n.heap
       /\ root = n.root
       /\ minDegree = n.minDegree
       /\ size = n.size
       /\ depth = n.depth
       /\ latest = [k \in AllKeys |-> 0]
       /\ calls = 0
       /\ repeated = FALSE
       /\ rootSplits = 0
       /\ childSplits = 0
       /\ retired = {}
       /\ splitArg = newNode
       /\ splitRes = NoSplit
       /\ InitThreads

Init == InitWith(DegreeArgs)

Insert(e) ==
  /\ ~err
  /\ \E t \in {insertEntry(bt, e)} :
        /\ heap' = t.heap
        /\ root' = t.root
        /\ size' = t.size
        /\ depth' = t.depth
        /\ rootSplits' = t.rootSplits
        /\ childSplits' = t.childSplits
        /\ retired' = t.retired
  /\ latest' = [latest EXCEPT ![e.key] = e.value]
  /\ calls' = calls + 1
  /\ repeated' = (repeated \/ latest[e.key] # 0)
  /\ UNCHANGED <<fixedVars, threadVars>>

\* Inserts of entries that differ in their keys only.
Next == calls < MaxCalls /\ \E k \in Keys : Insert(testEntry(k, 1))

Spec == Init /\ [][Next]_vars

\* Inserts of entries of any key and value.
NextVal ==
  calls < MaxValCalls /\ \E k \in ValKeys, v \in Vals : Insert(testEntry(k, v))

SpecVal == Init /\ [][NextVal]_vars

\* ------------------------------------------------------- split() on its own
\* The entries with the keys of S, ascending.
RECURSIVE AscendingEntries(_)
AscendingEntries(S) ==
  IF S = {} THEN <<>>
  ELSE <<testEntry(CHOOSE k \in S : \A j \in S : k <= j, 1)>>
         \o AscendingEntries(S \ {CHOOSE k \in S : \A j \in S : k <= j})

\* The full nodes of a tree of minimum degree t: 2t-1 ascending entries and
\* no children or 2t children.
FullNodes(t) ==
  {[entries |-> AscendingEntries(S), children |-> c] :
     S \in {K \in SUBSET (1..MaxSplitKey) : Cardinality(K) = 2 * t - 1},
     c \in {<<>>} \cup {[j \in 1..(2 * t) |-> b + j] : b \in 1..MaxSplitBase}}

InitSplit ==
  \E t \in 2..MaxDegreeArg :
    \E n \in FullNodes(t) :
       /\ splitArg = n
       /\ splitRes = NoSplit
       /\ minDegree = t
       /\ degreeArg = t
       /\ err = FALSE
       /\ heap = <<>>
       /\ root = NilNode
       /\ size = 0
       /\ depth = 0
       /\ latest = [k \in AllKeys |-> 0]
       /\ calls = 0
       /\ repeated = FALSE
       /\ rootSplits = 0
       /\ childSplits = 0
       /\ retired = {}
       /\ InitThreads

ApplySplit ==
  /\ splitRes = NoSplit
  /\ splitRes' = split(splitArg)
  /\ UNCHANGED <<heap, root, minDegree, size, depth, err, degreeArg, latest,
                 calls, repeated, rootSplits, childSplits, retired, splitArg,
                 threadVars>>

NextSplit == ApplySplit

SpecSplit == InitSplit /\ [][NextSplit]_vars

\* ------------------------------------------------ the operations, by steps
\* The tree becomes t.
SetTree(t) ==
  /\ heap' = t.heap
  /\ root' = t.root
  /\ size' = t.size
  /\ depth' = t.depth
  /\ rootSplits' = t.rootSplits
  /\ childSplits' = t.childSplits
  /\ retired' = t.retired

\* The threads that are in an Insert of a non-nil entry.
Inserting == {th \in Threads : pc[th] \in {"Lock", "LockWait", "loop"}}

\* InsertCall that tests for nil only after bt.mu.Lock().
InsertCallLocksFirst(th, e) ==
  /\ ~err
  /\ pc[th] = "idle"
  /\ op' = [op EXCEPT ![th] = [kind |-> "Insert", arg |-> e]]
  /\ pc' = [pc EXCEPT ![th] = "Lock"]
  /\ ret' = [ret EXCEPT ![th] = NoRet]
  /\ expect' = [expect EXCEPT ![th] = NoRet]
  /\ UNCHANGED <<treeVars, histVars, fixedVars, cur, mu, iters, seqTree>>

\* Thread th calls Insert(e); a nil e returns at once (lines 81-83).
InsertCall(th, e) ==
  /\ ~err
  /\ pc[th] = "idle"
  /\ op' = [op EXCEPT ![th] = [kind |-> "Insert", arg |-> e]]
  /\ pc' = [pc EXCEPT ![th] = IF e = NilEntry THEN "idle" ELSE "Lock"]
  /\ ret' = [ret EXCEPT ![th] = NoRet]
  /\ expect' = [expect EXCEPT ![th] = NoRet]
  /\ UNCHANGED <<treeVars, histVars, fixedVars, cur, mu, iters, seqTree>>

\* bt.mu.Lock() of line 85, first half: th is the writer that new readers
\* and other writers wait for.
InsertLock(th) ==
  /\ pc[th] = "Lock"
  /\ mu.writer = 0 /\ mu.pending = 0
  /\ mu' = [mu EXCEPT !.pending = th]
  /\ pc' = [pc EXCEPT ![th] = "LockWait"]
  /\ UNCHANGED <<treeVars, histVars, fixedVars, op, cur, ret, expect, iters,
                 seqTree>>

\* bt.mu.Lock() of line 85, second half: the readers have left; and line 88.
InsertLocked(th) ==
  /\ pc[th] = "LockWait"
  /\ mu.pending = th /\ mu.readers = {}
  /\ mu' = [mu EXCEPT !.pending = 0, !.writer = th]
  /\ pc' = [pc EXCEPT ![th] = "loop"]
  /\ cur' = [cur EXCEPT ![th] = root]
  /\ iters' = [iters EXCEPT ![th] = 0]
  /\ seqTree' = insertEntry(seqTree, op[th].arg)
  /\ UNCHANGED <<treeVars, histVars, fixedVars, op, ret, expect>>

\* InsertReturn without the bt.mu.Unlock().
InsertReturnKeepsLock(th) ==
  /\ pc' = [pc EXCEPT ![th] = "idle"]
  /\ mu' = mu
  /\ cur' = [cur EXCEPT ![th] = NilNode]
  /\ iters' = [iters EXCEPT ![th] = 0]
  /\ latest' = [latest EXCEPT ![op[th].arg.key] = op[th].arg.value]
  /\ calls' = calls + 1
  /\ repeated' = (repeated \/ latest[op[th].arg.key] # 0)

\* Insert of th returns: the deferred bt.mu.Unlock() of line 86.
InsertReturn(th) ==
  /\ pc' = [pc EXCEPT ![th] = "idle"]
  /\ mu' = [mu EXCEPT !.writer = 0]
  /\ cur' = [cur EXCEPT ![th] = NilNode]
  /\ iters' = [iters EXCEPT ![th] = 0]
  /\ latest' = [latest EXCEPT ![op[th].arg.key] = op[th].arg.value]
  /\ calls' = calls + 1
  /\ repeated' = (repeated \/ latest[op[th].arg.key] # 0)

\* One iteration of the loop of lines 93-139.
InsertIter(th) ==
  /\ pc[th] = "loop"
  /\ ~leaf(heap[cur[th]])
  /\ \E b \in {loopBody(bt, cur[th], op[th].arg)} :
       /\ SetTree(b.t)
       /\ IF b.returned
          THEN InsertReturn(th)
          ELSE /\ cur' = [cur EXCEPT ![th] = b.curr]
               /\ iters' = [iters EXCEPT ![th] = @ + 1]
               /\ UNCHANGED <<pc, mu, histVars>>
  /\ UNCHANGED <<fixedVars, op, ret, expect, seqTree>>

\* Lines 141-146, at the leaf.
InsertLeaf(th) ==
  /\ pc[th] = "loop"
  /\ leaf(heap[cur[th]])
  /\ \E t \in {leafInsert(bt, cur[th], op[th].arg)} : SetTree(t)
  /\ InsertReturn(th)
  /\ UNCHANGED <<fixedVars, op, ret, expect, seqTree>>

\* Thread th calls Search(e), Size() or Depth().
ReadCall(th, kind, e) ==
  /\ ~err
  /\ pc[th] = "idle"
  /\ op' = [op EXCEPT ![th] = [kind |-> kind, arg |-> e]]
  /\ pc' = [pc EXCEPT ![th] = "RLock"]
  /\ ret' = [ret EXCEPT ![th] = NoRet]
  /\ expect' = [expect EXCEPT ![th] = NoRet]
  /\ UNCHANGED <<treeVars, histVars, fixedVars, cur, mu, iters, seqTree>>

SearchCall(th, e) == ReadCall(th, "Search", e)

SizeCall(th) == ReadCall(th, "Size", NilEntry)

DepthCall(th) == ReadCall(th, "Depth", NilEntry)

\* What the read operation o returns when run on the tree as it is.
readNow(o) ==
  IF o.kind = "Search" THEN [entry |-> Search(o.arg), n |-> 0]
  ELSE IF o.kind = "Size" THEN [entry |-> NilEntry, n |-> size]
  ELSE [entry |-> NilEntry, n |-> depth]

\* ReadLock that does not wait for the writer.
ReadLockIgnoresWriter(th) ==
  /\ pc[th] = "RLock"
  /\ mu' = [mu EXCEPT !.readers = @ \cup {th}]
  /\ pc' = [pc EXCEPT ![th] = IF op[th].kind = "Search" THEN "search"
                              ELSE "read"]
  /\ cur' = [cur EXCEPT ![th] = IF op[th].kind = "Search" THEN root
                                ELSE NilNode]
  /\ iters' = [iters EXCEPT ![th] = 0]
  /\ expect' = [expect EXCEPT ![th] = readNow(op[th])]
  /\ UNCHANGED <<treeVars, histVars, fixedVars, op, ret, seqTree>>

\* bt.mu.RLock() of lines 42, 49 and 57 (and line 60 of Search): granted when
\* no writer holds the lock or waits for it.
ReadLock(th) ==
  /\ pc[th] = "RLock"
  /\ mu.writer = 0 /\ mu.pending = 0
  /\ mu' = [mu EXCEPT !.readers = @ \cup {th}]
  /\ pc' = [pc EXCEPT ![th] = IF op[th].kind = "Search" THEN "search"
                              ELSE "read"]
  /\ cur' = [cur EXCEPT ![th] = IF op[th].kind = "Search" THEN root
                                ELSE NilNode]
  /\ iters' = [iters EXCEPT ![th] = 0]
  /\ expect' = [expect EXCEPT ![th] = readNow(op[th])]
  /\ UNCHANGED <<treeVars, histVars, fixedVars, op, ret, seqTree>>

\* The read operation of th returns r: the deferred bt.mu.RUnlock().
ReadReturn(th, r) ==
  /\ ret' = [ret EXCEPT ![th] = r]
  /\ pc' = [pc EXCEPT ![th] = "idle"]
  /\ mu' = [mu EXCEPT !.readers = @ \ {th}]
  /\ cur' = [cur EXCEPT ![th] = NilNode]
  /\ iters' = [iters EXCEPT ![th] = 0]

\* One iteration of the loop of lines 61-72 of Search.
SearchIter(th) ==
  /\ pc[th] = "search"
  /\ \E st \in {searchStep(heap, cur[th], op[th].arg)} :
       IF st.done
       THEN ReadReturn(th, [entry |-> st.ret, n |-> 0])
       ELSE /\ cur' = [cur EXCEPT ![th] = st.curr]
            /\ iters' = [iters EXCEPT ![th] = @ + 1]
            /\ UNCHANGED <<pc, mu, ret>>
  /\ UNCHANGED <<treeVars, histVars, fixedVars, op, expect, seqTree>>

\* Lines 44 and 51: return bt.size, return bt.depth.
CounterRead(th) ==
  /\ pc[th] = "read"
  /\ ReadReturn(th, [entry |-> NilEntry,
                     n |-> IF op[th].kind = "Size" THEN size ELSE depth])
  /\ UNCHANGED <<treeVars, histVars, fixedVars, op, expect, seqTree>>

\* One thread that runs Inserts of entries that differ in their keys only.
InitStep == InitWith(2..MaxDegreeArg)

NextStep ==
  \/ /\ calls < MaxStepCalls
     /\ \E k \in StepKeys : InsertCall(1, testEntry(k, 1))
  \/ InsertLock(1)
  \/ InsertLocked(1)
  \/ InsertIter(1)
  \/ InsertLeaf(1)

SpecStep == InitStep /\ [][NextStep]_vars

\* Threads that run any of the operations.
InitConc == InitWith(2..MaxConcDegree)

\* A step of a thread, with Insert and Search called on the keys K and at
\* most maxCalls Inserts of a non-nil entry.
ThreadStep(K, maxCalls) ==
  \E th \in Threads :
    \/ /\ calls + Cardinality(Inserting) < maxCalls
       /\ \E k \in K : InsertCall(th, testEntry(k, 1))
    \/ InsertCall(th, NilEntry)
    \/ InsertLock(th)
    \/ InsertLocked(th)
    \/ InsertIter(th)
    \/ InsertLeaf(th)
    \/ \E k \in K : SearchCall(th, testEntry(k, 1))
    \/ SizeCall(th)
    \/ DepthCall(th)
    \/ ReadLock(th)
    \/ SearchIter(th)
    \/ CounterRead(th)

NextConc == ThreadStep(ConcKeys, MaxConcCalls)

SpecConc == InitConc /\ [][NextConc]_vars

\* The same threads under fair scheduling: a thread that can take a step of
\* the operation it is in takes it (calling an operation is up to the
\* caller), and sync.RWMutex lets no Lock or RLock wait for ever while the
\* lock keeps becoming free.
NextFair == ThreadStep(FairKeys, MaxFairCalls)

\* The steps of an operation that need no lock to become free.
Running(th) ==
  \/ InsertLocked(th)
  \/ InsertIter(th)
  \/ InsertLeaf(th)
  \/ SearchIter(th)
  \/ CounterRead(th)

\* The steps that take the lock.
Locking(th) == InsertLock(th) \/ ReadLock(th)

Fairness ==
  \A th \in Threads : WF_vars(Running(th)) /\ SF_vars(Locking(th))

SpecFair == InitConc /\ [][NextFair]_vars /\ Fairness

\* ------------------------------------------------- the tree, as a whole
Range(s) == {s[i] : i \in 1..Len(s)}

\* The ids of the nodes reachable from node id.
RECURSIVE Reachable(_, _)
Reachable(h, id) ==
  {id} \cup UNION {Reachable(h, c) : c \in Range(h[id].children)}

\* The in-order traversal below node id: child, entry, child, ...
RECURSIVE InOrder(_, _)
RECURSIVE Interleave(_, _, _)
InOrder(h, id) ==
  IF leaf(h[id]) THEN h[id].entries ELSE Interleave(h, h[id], 0)

Interleave(h, n, i) ==
  IF i >= numChildren(n)
  THEN IF i < numEntries(n) THEN SubSeq(n.entries, i + 1, numEntries(n))
       ELSE <<>>
  ELSE InOrder(h, At(n.children, i))
         \o (IF i < numEntries(n) THEN <<At(n.entries, i)>> ELSE <<>>)
         \o Interleave(h, n, i + 1)

\* The levels (the root is level 1) at which the leaves below node id lie.
RECURSIVE LeafLevels(_, _, _)
LeafLevels(h, id, lvl) ==
  IF leaf(h[id]) THEN {lvl}
  ELSE UNION {LeafLevels(h, c, lvl + 1) : c \in Range(h[id].children)}

StrictlyAscending(s) ==
  \A i \in 1..(Len(s) - 1) : Compare(s[i], s[i + 1]) < 0

InsertedKeys == {k \in AllKeys : latest[k] # 0}

\* ----------------------------------------------------------------- claims

\* C1: Search(k) returns the entry most recently inserted with key k, that
\* is, after a re-insert of a stored key the new value and not the old one.
SearchReturnsLatest ==
  ~err => \A k \in InsertedKeys :
            Search(testEntry(k, 0)) = testEntry(k, latest[k])

\* C2: Size() equals the number of distinct keys inserted so far, so a
\* re-insert of a stored key leaves it unchanged.
SizeIsDistinctKeys == ~err => size = Cardinality(InsertedKeys)

\* C3: the in-order traversal of the tree is strictly ascending (no key
\* twice), and in every node all entries under children[i] are less than
\* entries[i] and all entries under children[i+1] are greater.
NodeOrdered(h, id) ==
  LET n == h[id]
  IN leaf(n) \/
     \A i \in 0..(numEntries(n) - 1) :
       /\ i < numChildren(n) =>
            \A x \in Range(InOrder(h, At(n.children, i))) :
              Compare(x, At(n.entries, i)) < 0
       /\ i + 1 < numChildren(n) =>
            \A x \in Range(InOrder(h, At(n.children, i + 1))) :
              Compare(x, At(n.entries, i)) > 0

InOrderStrictlyAscending ==
  ~err => /\ StrictlyAscending(InOrder(heap, root))
          /\ \A id \in Reachable(heap, root) : NodeOrdered(heap, id)

\* C4: while all Insert calls so far carried pairwise distinct keys, Size()
\* equals the number of Insert calls.
SizeCountsDistinctInserts == (~err /\ ~repeated) => size = calls

DistinctInsertsWitness ==
  ~err /\ ~repeated /\ calls = MaxKey /\ rootSplits >= 1 /\ childSplits >= 2

\* C5: every key inserted so far is found by Search, with an entry that
\* compares equal to it.
NoKeyLost ==
  ~err => \A k \in InsertedKeys :
            /\ Search(testEntry(k, 0)) # NilEntry
            /\ Compare(Search(testEntry(k, 0)), testEntry(k, 0)) = 0

NoKeyLostWitness ==
  ~err /\ rootSplits >= 2 /\ childSplits >= 2 /\ Cardinality(InsertedKeys) >= 7

\* C6: every node other than the root holds between t-1 and 2t-1 entries;
\* the root holds between 0 and 2t-1 entries, and 0 only when nothing has
\* been inserted.
OccupancyBounds ==
  ~err =>
    /\ \A id \in Reachable(heap, root) \ {root} :
         /\ minDegree - 1 <= numEntries(heap[id])
         /\ numEntries(heap[id]) <= 2 * minDegree - 1
    /\ numEntries(heap[root]) <= 2 * minDegree - 1
    /\ numEntries(heap[root]) = 0 => calls = 0

\* A full internal root above a child just split into two minimal halves.
OccupancyWitness ==
  /\ ~err /\ childSplits >= 2 /\ ~leaf(heap[root])
  /\ numEntries(heap[root]) = 2 * minDegree - 1
  /\ \E id \in Reachable(heap, root) \ {root} :
       numEntries(heap[id]) = minDegree - 1

\* C7: every leaf lies at the same level, and the number of levels from the
\* root to a leaf is Depth().
LeavesAtDepth == ~err => LeafLevels(heap, root, 1) = {depth}

LeavesAtDepthWitness ==
  ~err /\ depth = 3 /\ childSplits >= 3 /\ Cardinality(Reachable(heap, root)) >= 8

\* C8: every node reachable from the root is a leaf with no children or has
\* one child more than it has entries.
ChildCount ==
  ~err => \A id \in Reachable(heap, root) :
            \/ numChildren(heap[id]) = 0
            \/ numChildren(heap[id]) = numEntries(heap[id]) + 1

\* A non-root internal node that took a promoted mid entry from a child split.
ChildCountWitness ==
  /\ ~err /\ childSplits >= 1
  /\ \E id \in Reachable(heap, root) \ {root} :
       ~leaf(heap[id]) /\ numEntries(heap[id]) >= 2

\* C9: New(t) gives an error and no tree when t < 2; for t >= 2 it gives a
\* tree and no error, with Depth() = 1, Size() = 0 and an empty leaf root in
\* which every Search is absent.
NewContract ==
  /\ err <=> degreeArg < 2
  /\ err => root = NilNode
  /\ (~err /\ calls = 0) =>
       /\ depth = 1
       /\ size = 0
       /\ minDegree = degreeArg
       /\ root # NilNode
       /\ numEntries(heap[root]) = 0
       /\ leaf(heap[root])
       /\ \A k \in AllKeys : Search(testEntry(k, 1)) = NilEntry

NewWitness == ~err /\ calls = 0 /\ degreeArg = 2 /\ depth = 1

\* C10: Depth() is 1 for a fresh tree, grows by one with every root split
\* and changes at no other step; it never decreases.
DepthFollowsRootSplits ==
  /\ ~err => depth = 1
  /\ [][/\ depth' = depth + (rootSplits' - rootSplits)
        /\ depth' >= depth]_vars

\* Two root splits, child splits, and an Insert that split nothing.
DepthWitness ==
  ~err /\ depth = 3 /\ rootSplits = 2 /\ childSplits >= 2 /\ calls = MaxCalls

\* C11: Search for a key that was never inserted returns nil, and no Search
\* indexes a child that does not exist.
SearchAbsent ==
  ~err => /\ \A k \in AllKeys \ InsertedKeys :
               Search(testEntry(k, 1)) = NilEntry
          /\ \A k \in AllKeys : Search(testEntry(k, 1)) # PanicEntry

\* A tree of three levels in which the largest key, which sends Search to
\* the last child of every node, is absent, as is the smallest.
SearchAbsentWitness ==
  /\ ~err /\ depth = 3 /\ childSplits >= 2
  /\ latest[MaxKey] = 0 /\ latest[1] = 0
  /\ Cardinality(InsertedKeys) >= 6

\* C18: every node reachable from the root is referenced by exactly one
\* child slot of one parent, the root by none; no node is below itself; and
\* no node that was split and cleared is reachable.
RECURSIVE Closure(_, _, _)
Closure(h, S, n) ==
  IF n = 0 THEN S
  ELSE Closure(h, S \cup UNION {Range(h[id].children) \cap DOMAIN h : id \in S},
               n - 1)

ReachableIds(h, r) == Closure(h, {r}, Len(h))

Below(h, id) == Closure(h, Range(h[id].children) \cap DOMAIN h, Len(h))

Slots(h, R, id) ==
  {<<p, j>> \in R \X (1..Len(h) + 1) :
     j <= numChildren(h[p]) /\ h[p].children[j] = id}

TreeShaped ==
  ~err =>
    /\ \A id \in ReachableIds(heap, root) :
         /\ Range(heap[id].children) \subseteq DOMAIN heap
         /\ Cardinality(Slots(heap, ReachableIds(heap, root), id))
              = IF id = root THEN 0 ELSE 1
         /\ id \notin Below(heap, id)
    /\ ReachableIds(heap, root) \cap retired = {}

TreeShapedWitness ==
  /\ ~err /\ rootSplits = 2 /\ childSplits >= 3
  /\ Cardinality(retired) >= 5
  /\ Cardinality(ReachableIds(heap, root)) >= 8

\* C20: one Insert splits the root at most once, so that Depth() grows by
\* at most one per Insert, and after every Insert a root that is a leaf
\* holds at most 2t-2 entries.
RootSplitOncePerInsert ==
  /\ [](~err /\ leaf(heap[root])
          => numEntries(heap[root]) <= 2 * minDegree - 2)
  /\ [][/\ rootSplits' - rootSplits <= 1
        /\ depth' - depth <= 1]_vars

\* The state after an Insert that split a full internal root in its walk.
RootSplitOnceWitness ==
  /\ ~err /\ rootSplits = 2 /\ depth = 3 /\ size = 9
  /\ numEntries(heap[root]) = 1

\* C16: split() of a full node, with m = (2t-1) div 2, returns left with
\* the entries [0, m), right with the entries (m, 2t-1) and mid =
\* entries[m], in neither half; the children, if any, go [0, m+1) to left
\* and [m+1, 2t) to right, else both halves are leaves; both halves hold t-1
\* entries and no entry or child is lost or duplicated.
SplitContract ==
  splitRes # NoSplit =>
    LET n == splitArg
        t == minDegree
        m == (2 * t - 1) \div 2
        l == splitRes.left
        r == splitRes.right
    IN /\ numEntries(l) = m /\ numEntries(r) = 2 * t - 2 - m
       /\ \A j \in 0..(m - 1) : At(l.entries, j) = At(n.entries, j)
       /\ \A j \in 0..(2 * t - 3 - m) : At(r.entries, j) = At(n.entries, m + 1 + j)
       /\ splitRes.mid = At(n.entries, m)
       /\ splitRes.mid \notin Range(l.entries) \cup Range(r.entries)
       /\ numEntries(l) = t - 1 /\ numEntries(r) = t - 1
       /\ l.entries \o <<splitRes.mid>> \o r.entries = n.entries
       /\ IF numChildren(n) > 0
          THEN /\ numChildren(l) = m + 1 /\ numChildren(r) = 2 * t - (m + 1)
               /\ \A j \in 0..m : At(l.children, j) = At(n.children, j)
               /\ \A j \in 0..(2 * t - m - 2) :
                    At(r.children, j) = At(n.children, m + 1 + j)
               /\ l.children \o r.children = n.children
          ELSE leaf(l) /\ leaf(r)

\* A full node with children, of minimum degree 3, after its split.
SplitWitness ==
  /\ splitRes # NoSplit /\ minDegree = 3
  /\ numEntries(splitArg) = 5 /\ numChildren(splitArg) = 6

\* C12: Insert of a nil entry changes nothing of the tree (root, nodes,
\* Size(), Depth()) and returns without taking the lock.
NilInsert == [kind |-> "Insert", arg |-> NilEntry]

NilInsertIsNoOp ==
  [][\A th \in Threads :
       (op'[th] = NilInsert /\ op[th] # NilInsert)
         => /\ UNCHANGED <<treeVars, histVars, minDegree, mu>>
            /\ pc'[th] = "idle"]_vars

\* A nil Insert that returned while another thread held the lock as writer.
NilInsertWitness ==
  \E th \in Threads :
    /\ op[th] = NilInsert /\ pc[th] = "idle"
    /\ mu.writer \notin {0, th} /\ size >= 3

\* C13: while an Insert is between Lock and Unlock no Search, Size or Depth
\* is inside its read section and no other Insert is; and every read
\* operation returns what it returns on the tree as it was when the reader
\* got the lock, a tree between two Inserts.
InWrite(th) == pc[th] = "loop"

InRead(th) == pc[th] \in {"search", "read"}

ReadersSeeWholeInserts ==
  /\ \A w \in Threads :
       InWrite(w) => /\ mu.writer = w /\ mu.readers = {}
                     /\ \A o \in Threads \ {w} : ~InWrite(o) /\ ~InRead(o)
  /\ \A r \in Threads :
       InRead(r) => /\ r \in mu.readers /\ mu.writer = 0
                    /\ bt = seqTree
                    /\ expect[r] = readNow(op[r])
  /\ \A r \in Threads :
       (pc[r] = "idle" /\ op[r].kind \in {"Search", "Size", "Depth"})
         => ret[r] = expect[r]

\* A Search below the root of a tree that saw a root split, with a writer
\* waiting for it to leave.
ReadersWitness ==
  \E r \in Threads, w \in Threads :
    /\ pc[r] = "search" /\ cur[r] # root /\ pc[w] = "LockWait"
    /\ rootSplits >= 1 /\ size >= 4

\* C14: Inserts called by several threads, in any interleaving, leave the
\* tree that their sequential execution in some order leaves: no insert is
\* lost, Size() is the number of inserts when the keys are pairwise
\* distinct, and the ordering, occupancy, child-count and balance
\* invariants hold.
ConcurrentInsertsSequential ==
  (~err /\ mu.writer = 0) =>
    /\ bt = seqTree
    /\ NoKeyLost
    /\ SizeCountsDistinctInserts
    /\ InOrderStrictlyAscending
    /\ OccupancyBounds
    /\ ChildCount
    /\ LeavesAtDepth

\* C15: when Insert puts the entry into the leaf it reached, the leaf holds
\* fewer than 2t-1 entries; when it splits a full child, the node that takes
\* the mid entry holds fewer than 2t-1 entries; and no node ever holds more
\* than 2t-1 entries, also in the middle of an Insert.
AtLeaf(th) == pc[th] = "loop" /\ leaf(heap[cur[th]])

AtChildSplit(th) ==
  /\ pc[th] = "loop" /\ ~leaf(heap[cur[th]])
  /\ get(heap[cur[th]], op[th].arg).found = NilEntry
  /\ ~(cur[th] = root /\ nodeFull(bt, heap[cur[th]]))
  /\ nodeFull(bt, heap[At(heap[cur[th]].children,
                         get(heap[cur[th]], op[th].arg).i)])

RoomAtEveryStep ==
  /\ \A th \in Threads :
       /\ AtLeaf(th) => numEntries(heap[cur[th]]) < 2 * minDegree - 1
       /\ AtChildSplit(th) => numEntries(heap[cur[th]]) < 2 * minDegree - 1
  /\ \A id \in DOMAIN heap : numEntries(heap[id]) <= 2 * minDegree - 1

\* A full child about to be split under a parent that is not the root.
RoomWitness ==
  \E th \in Threads :
    /\ AtChildSplit(th) /\ depth = 3 /\ cur[th] # root
    /\ numEntries(heap[cur[th]]) = minDegree - 1

\* C17: the step of Insert that splits the full child at index i of curr
\* leaves the mid entry at entry index i of curr, the left half at child
\* index i and the right half at i+1, all other entries and children of curr
\* in their order, and curr at the left half when the inserted key is less
\* than mid and at the right half otherwise.
Without(q, i) == SubSeq(q, 1, i) \o SubSeq(q, i + 2, Len(q))

ChildSplitStep(th) ==
  LET c == cur[th]
      e == op[th].arg
      i == get(heap[c], e).i
      old == heap[At(heap[c].children, i)]
      m == numEntries(old) \div 2
      mid == At(old.entries, m)
      l == At(heap'[c].children, i)
      r == At(heap'[c].children, i + 1)
  IN /\ At(heap'[c].entries, i) = mid
     /\ {l, r} \cap DOMAIN heap = {} /\ l # r
     /\ heap'[l].entries = SubSeq(old.entries, 1, m)
     /\ heap'[r].entries = SubSeq(old.entries, m + 2, numEntries(old))
     /\ Without(heap'[c].entries, i) = heap[c].entries
     /\ Without(Without(heap'[c].children, i), i) = Without(heap[c].children, i)
     /\ cur'[th] = IF Compare(e, mid) < 0 THEN l ELSE r

ChildSplitPlacement ==
  [][\A th \in Threads :
       (pc[th] = "loop" /\ childSplits' = childSplits + 1)
         => ChildSplitStep(th)]_vars

\* After a child split under a non-root parent, in its right half.
ChildSplitWitness ==
  \E th \in Threads :
    /\ pc[th] = "loop" /\ childSplits >= 1 /\ retired # {}
    /\ \E p \in DOMAIN heap :
         /\ numChildren(heap[p]) >= 3
         /\ At(heap[p].children, numChildren(heap[p]) - 1) = cur[th]
         /\ minDegree = 3

====
